---- MODULE Spec2Model ----
(***************************************************************************)
(* Model of the Slider component of src/src/index.tsx: the value mapper    *)
(* (_getRatio, _getThumbLeft, _getValue), the geometry store               *)
(* (_handleMeasure), the gesture controller (the PanResponder handlers),   *)
(* the value holder (Animated.Value with its listener) and the thumb touch *)
(* rect.                                                                   *)
(*                                                                         *)
(* JavaScript numbers are modelled as exact rationals extended with the    *)
(* three IEEE special values NaN, +Infinity and -Infinity, so that the     *)
(* divisions of the code are divisions that can go wrong.  Rounding error  *)
(* of the binary representation is not modelled.                           *)
(***************************************************************************)
EXTENDS Integers, Sequences, FiniteSets, TLC

VARIABLES
    cfg,            \* this.props: minimumValue, maximumValue, step, thumbTouchSize; I18nManager.isRTL
    props,          \* this.props: value, disabled, animateTransitions
    state,          \* this.state: containerSize, trackSize, thumbSize, allMeasured
    stored,         \* this._containerSize, this._trackSize, this._thumbSize
    value,          \* this.state.value, the Animated.Value
    animation,      \* the animation attached to this.state.value
    currentValue,   \* this.currentValue, written by the value listener
    _previousLeft,  \* this._previousLeft
    dragging,       \* TRUE while the PanResponder holds the responder
    fired,          \* the callbacks the last operation fired, with their argument
    last            \* the last operation, its inputs and what it computed

vars == <<cfg, props, state, stored, value, animation, currentValue,
          _previousLeft, dragging, fired, last>>

(***************************************************************************)
(* JavaScript numbers                                                      *)
(***************************************************************************)
Abs(i) == IF i < 0 THEN -i ELSE i

RECURSIVE GCD(_, _)
GCD(a, b) == IF b = 0 THEN a ELSE GCD(b, a % b)

\* the finite number n/d in lowest terms with a positive denominator
Fin(n, d) ==
    LET s == IF d < 0 THEN -1 ELSE 1
        g == GCD(Abs(n), Abs(d))
    IN  [t |-> "fin", n |-> (s * n) \div g, d |-> (s * d) \div g]

I(n) == [t |-> "fin", n |-> n, d |-> 1]
NaN == [t |-> "nan", n |-> 0, d |-> 1]
PInf == [t |-> "pinf", n |-> 0, d |-> 1]
NInf == [t |-> "ninf", n |-> 0, d |-> 1]

IsFinite(a) == a.t = "fin"
IsInf(a) == a.t \in {"pinf", "ninf"}

\* -1, 0 or 1; a zero counts as +0 where the sign of a zero matters
Sign(a) ==
    CASE a.t = "pinf" -> 1
      [] a.t = "ninf" -> -1
      [] a.t = "fin" -> (IF a.n > 0 THEN 1 ELSE IF a.n < 0 THEN -1 ELSE 0)
      [] OTHER -> 0

InfOfSign(s) == IF s < 0 THEN NInf ELSE PInf

NNeg(a) ==
    CASE a.t = "fin" -> Fin(-a.n, a.d)
      [] a.t = "pinf" -> NInf
      [] a.t = "ninf" -> PInf
      [] OTHER -> NaN

\* a + b
NAdd(a, b) ==
    IF a.t = "nan" \/ b.t = "nan" THEN NaN
    ELSE IF IsInf(a) /\ IsInf(b) THEN (IF a.t = b.t THEN a ELSE NaN)
    ELSE IF IsInf(a) THEN a
    ELSE IF IsInf(b) THEN b
    ELSE Fin(a.n * b.d + b.n * a.d, a.d * b.d)

\* a - b
NSub(a, b) == NAdd(a, NNeg(b))

\* a * b
NMul(a, b) ==
    IF a.t = "nan" \/ b.t = "nan" THEN NaN
    ELSE IF IsInf(a) \/ IsInf(b)
         THEN (IF Sign(a) = 0 \/ Sign(b) = 0 THEN NaN
               ELSE InfOfSign(Sign(a) * Sign(b)))
    ELSE Fin(a.n * b.n, a.d * b.d)

\* a / b, the divisor zero being +0
NDiv(a, b) ==
    IF a.t = "nan" \/ b.t = "nan" THEN NaN
    ELSE IF IsInf(a) /\ IsInf(b) THEN NaN
    ELSE IF IsInf(a) THEN InfOfSign(Sign(a) * (IF Sign(b) < 0 THEN -1 ELSE 1))
    ELSE IF IsInf(b) THEN I(0)
    ELSE IF b.n = 0 THEN (IF a.n = 0 THEN NaN ELSE InfOfSign(Sign(a)))
    ELSE Fin(a.n * b.d, a.d * b.n)

\* a <= b, a < b, a === b: every comparison with NaN is false
NLe(a, b) ==
    /\ a.t # "nan"
    /\ b.t # "nan"
    /\ \/ a.t = "ninf"
       \/ b.t = "pinf"
       \/ IsFinite(a) /\ IsFinite(b) /\ a.n * b.d <= b.n * a.d

NLt(a, b) == NLe(a, b) /\ a # b

NEq(a, b) == a.t # "nan" /\ b.t # "nan" /\ a = b

Math_min(a, b) ==
    IF a.t = "nan" \/ b.t = "nan" THEN NaN
    ELSE IF NLe(a, b) THEN a ELSE b

Math_max(a, b) ==
    IF a.t = "nan" \/ b.t = "nan" THEN NaN
    ELSE IF NLe(a, b) THEN b ELSE a

\* Math.round mistaken for Math.floor
Math_round_AsFloor(a) ==
    IF a.t # "fin" THEN a
    ELSE I(a.n \div a.d)

\* Math.round: the integer nearest to a, a tie going towards +Infinity
Math_round(a) ==
    IF a.t # "fin" THEN a
    ELSE I((2 * a.n + a.d) \div (2 * a.d))

\* the truthiness of a number: if (step), value || 0
Truthy(a) == a.t # "nan" /\ ~(a.t = "fin" /\ a.n = 0)

\* value || 0
OrZero(a) == IF Truthy(a) THEN a ELSE I(0)

(***************************************************************************)
(* Bounds and the inputs drawn from them                                   *)
(***************************************************************************)
\* the largest drag delta that is tried, larger than every track length
MaxDx == 9

DXs == {-MaxDx, 0, 4, MaxDx}

\* the layout sizes a region is measured with: track lengths 8 and 0, a
\* container lower than the touch size and one as high
Sizes(storeName) ==
    IF storeName = "_trackSize" THEN {[width |-> 10, height |-> 4]}
    ELSE IF storeName = "_thumbSize" THEN {[width |-> 2, height |-> 4]}
    ELSE {[width |-> 10, height |-> 2], [width |-> 2, height |-> 4]}

SizeEnum == {"_containerSize", "_trackSize", "_thumbSize"}

EventEnum == {"onSlidingStart", "onValueChange", "onSlidingComplete"}

\* a continuous range left to right, a stepped range whose span is no
\* multiple of the step right to left, and a degenerate range
Ranges ==
    { [minimumValue |-> I(0), maximumValue |-> I(4), step |-> I(0), isRTL |-> FALSE],
      [minimumValue |-> I(0), maximumValue |-> I(5), step |-> I(2), isRTL |-> TRUE],
      [minimumValue |-> I(2), maximumValue |-> I(2), step |-> I(0), isRTL |-> FALSE] }

Configs ==
    { [minimumValue |-> r.minimumValue, maximumValue |-> r.maximumValue,
       step |-> r.step, isRTL |-> r.isRTL,
       thumbTouchSize |-> [width |-> 4, height |-> 4]] : r \in Ranges }

\* the value props of a configuration: "between minimumValue and maximumValue"
PropValues(c) == {c.minimumValue, c.maximumValue}

\* the points of the touch area that are pressed
TouchPoints ==
    { [locationX |-> p[1], locationY |-> p[2]] :
      p \in {<<0, 0>>, <<4, 4>>, <<8, 2>>, <<2, 5>>} }

Undefined == [width |-> -1, height |-> -1]

NoOp == [op |-> "constructor", arg |-> <<>>, hit |-> FALSE, setState |-> FALSE,
         superseded |-> FALSE]

(***************************************************************************)
(* Rect                                                                    *)
(***************************************************************************)
Rect(x, y, width, height) == [x |-> x, y |-> y, width |-> width, height |-> height]

containsPoint(rect, x, y) ==
    /\ NLe(rect.x, x)
    /\ NLe(rect.y, y)
    /\ NLe(x, NAdd(rect.x, rect.width))
    /\ NLe(y, NAdd(rect.y, rect.height))

(***************************************************************************)
(* Value mapper                                                            *)
(***************************************************************************)
_getRatio(v) ==
    NDiv(NSub(v, cfg.minimumValue), NSub(cfg.maximumValue, cfg.minimumValue))

_getThumbLeft(v) ==
    LET nonRtlRatio == _getRatio(v)
        ratio == IF cfg.isRTL THEN NSub(I(1), nonRtlRatio) ELSE nonRtlRatio
    IN  NMul(ratio, I(state.containerSize.width - state.thumbSize.width))

\* _getValue with the step count left unrounded
_getValue_Unrounded(gestureState) ==
    LET length == I(state.containerSize.width - state.thumbSize.width)
        thumbLeft == NAdd(_previousLeft, I(gestureState.dx))
        nonRtlRatio == NDiv(thumbLeft, length)
        ratio == IF cfg.isRTL THEN NSub(I(1), nonRtlRatio) ELSE nonRtlRatio
        range == NSub(cfg.maximumValue, cfg.minimumValue)
    IN  Math_max(cfg.minimumValue,
            Math_min(cfg.maximumValue,
                NAdd(NMul(ratio, range), cfg.minimumValue)))

_getValue(gestureState) ==
    LET length == I(state.containerSize.width - state.thumbSize.width)
        thumbLeft == NAdd(_previousLeft, I(gestureState.dx))
        nonRtlRatio == NDiv(thumbLeft, length)
        ratio == IF cfg.isRTL THEN NSub(I(1), nonRtlRatio) ELSE nonRtlRatio
        range == NSub(cfg.maximumValue, cfg.minimumValue)
    IN  IF Truthy(cfg.step)
        THEN Math_max(cfg.minimumValue,
                 Math_min(cfg.maximumValue,
                     NAdd(cfg.minimumValue,
                          NMul(Math_round(NDiv(NMul(ratio, range), cfg.step)),
                               cfg.step))))
        ELSE Math_max(cfg.minimumValue,
                 Math_min(cfg.maximumValue,
                     NAdd(NMul(ratio, range), cfg.minimumValue)))

_getCurrentValue == currentValue

(***************************************************************************)
(* Touch-target geometry                                                   *)
(***************************************************************************)
Max0(i) == IF i > 0 THEN i ELSE 0

_getTouchOverflowSize ==
    IF state.allMeasured = TRUE
    THEN [width |-> Max0(cfg.thumbTouchSize.width - state.thumbSize.width),
          height |-> Max0(cfg.thumbTouchSize.height - state.containerSize.height)]
    ELSE [width |-> 0, height |-> 0]

\* _getThumbTouchRect with the left edge of the rect on the left edge of the
\* thumb
_getThumbTouchRect_AtThumbLeft ==
    LET touchOverflowSize == _getTouchOverflowSize
    IN  Rect(NAdd(Fin(touchOverflowSize.width, 2),
                  _getThumbLeft(_getCurrentValue)),
             NAdd(Fin(touchOverflowSize.height, 2),
                  Fin(state.containerSize.height - cfg.thumbTouchSize.height, 2)),
             I(cfg.thumbTouchSize.width),
             I(cfg.thumbTouchSize.height))

_getThumbTouchRect ==
    LET touchOverflowSize == _getTouchOverflowSize
    IN  Rect(NAdd(NAdd(Fin(touchOverflowSize.width, 2),
                       _getThumbLeft(_getCurrentValue)),
                  Fin(state.thumbSize.width - cfg.thumbTouchSize.width, 2)),
             NAdd(Fin(touchOverflowSize.height, 2),
                  Fin(state.containerSize.height - cfg.thumbTouchSize.height, 2)),
             I(cfg.thumbTouchSize.width),
             I(cfg.thumbTouchSize.height))

_thumbHitTest(e) ==
    containsPoint(_getThumbTouchRect, I(e.locationX), I(e.locationY))

(***************************************************************************)
(* Value holder: the Animated.Value, its listener and its animation        *)
(***************************************************************************)
NoAnimation == [active |-> FALSE, toValue |-> I(0)]

\* the values an animation frame may deliver on the way from a to b
FrameValues(a, b) ==
    IF ~IsFinite(a) THEN {NaN}
    ELSE { v \in {cfg.minimumValue, cfg.maximumValue,
                  NDiv(NAdd(cfg.minimumValue, cfg.maximumValue), I(2))} :
           NLe(Math_min(a, b), v) /\ NLe(v, Math_max(a, b)) }

\* an animation was in flight and the operation has stopped or replaced it
Superseded == animation.active /\ animation' # animation

\* setValue that leaves the animation of the value running
_setCurrentValue_KeepsAnimation(v) ==
    /\ value' = v
    /\ currentValue' = v
    /\ UNCHANGED animation

\* this.state.value.setValue(v): stops the animation, stores v and calls the
\* listener of the constructor, which copies v to this.currentValue
_setCurrentValue(v) ==
    /\ value' = v
    /\ animation' = NoAnimation
    /\ currentValue' = v

\* Animated[animationType](this.state.value, {toValue: v}).start(): replaces
\* the animation of the value; the value itself moves with the later frames
_setCurrentValueAnimated(v) ==
    /\ animation' = [active |-> TRUE, toValue |-> v]
    /\ UNCHANGED <<value, currentValue>>

\* _fireChangeEvent with the argument read before the write of the handler
_fireChangeEvent_BeforeWrite(event) ==
    fired' = <<[name |-> event, value |-> currentValue]>>

\* this.props[event](this._getCurrentValue()): the callback and its argument,
\* read from this.currentValue as the handler leaves it
_fireChangeEvent(event) ==
    fired' = <<[name |-> event, value |-> currentValue']>>

(***************************************************************************)
(* Construction                                                            *)
(***************************************************************************)
\* a constructor whose state says that every region is measured
Init_AllMeasured ==
    /\ cfg \in Configs
    /\ props \in { [value |-> v, disabled |-> d, animateTransitions |-> a] :
                   v \in PropValues(cfg), d \in BOOLEAN, a \in BOOLEAN }
    /\ state = [containerSize |-> [width |-> 0, height |-> 0],
                trackSize |-> [width |-> 0, height |-> 0],
                thumbSize |-> [width |-> 0, height |-> 0],
                allMeasured |-> TRUE]
    /\ stored = [n \in SizeEnum |-> Undefined]
    /\ value = OrZero(props.value)
    /\ animation = NoAnimation
    /\ currentValue = I(0)
    /\ _previousLeft = I(0)
    /\ dragging = FALSE
    /\ fired = <<>>
    /\ last = NoOp

Init ==
    /\ cfg \in Configs
    /\ props \in { [value |-> v, disabled |-> d, animateTransitions |-> a] :
                   v \in PropValues(cfg), d \in BOOLEAN, a \in BOOLEAN }
    /\ state = [containerSize |-> [width |-> 0, height |-> 0],
                trackSize |-> [width |-> 0, height |-> 0],
                thumbSize |-> [width |-> 0, height |-> 0],
                allMeasured |-> FALSE]
    /\ stored = [n \in SizeEnum |-> Undefined]
    /\ value = OrZero(props.value)
    /\ animation = NoAnimation
    /\ currentValue = I(0)
    /\ _previousLeft = I(0)
    /\ dragging = FALSE
    /\ fired = <<>>
    /\ last = NoOp

(***************************************************************************)
(* Props                                                                   *)
(***************************************************************************)
\* componentWillReceiveProps without the comparison of the value props
componentWillReceiveProps_AlwaysWrites(nextProps) ==
    LET newValue == OrZero(nextProps.value)
    IN  /\ IF props.animateTransitions
           THEN _setCurrentValueAnimated(newValue)
           ELSE _setCurrentValue(newValue)
        /\ props' = nextProps
        /\ last' = [NoOp EXCEPT !.op = "receiveProps"]
        /\ fired' = <<>>
        /\ UNCHANGED <<cfg, state, stored, _previousLeft, dragging>>

componentWillReceiveProps(nextProps) ==
    LET newValue == OrZero(nextProps.value)
    IN  /\ IF ~NEq(props.value, newValue)
           THEN IF props.animateTransitions
                THEN _setCurrentValueAnimated(newValue)
                ELSE _setCurrentValue(newValue)
           ELSE UNCHANGED <<value, animation, currentValue>>
        /\ props' = nextProps
        /\ last' = [NoOp EXCEPT !.op = "receiveProps",
                                !.superseded = Superseded]
        /\ fired' = <<>>
        /\ UNCHANGED <<cfg, state, stored, _previousLeft, dragging>>

ReceiveProps ==
    \E v \in PropValues(cfg), d \in BOOLEAN, a \in BOOLEAN :
        LET nextProps == [value |-> v, disabled |-> d, animateTransitions |-> a]
        IN  /\ nextProps # props
            /\ componentWillReceiveProps(nextProps)

(***************************************************************************)
(* Animation frames, driven by the host's frame loop                       *)
(***************************************************************************)
AnimationFrame ==
    /\ animation.active
    /\ \E v \in FrameValues(value, animation.toValue) :
        /\ v # value
        /\ v # animation.toValue
        /\ value' = v
        /\ currentValue' = v
    /\ last' = [NoOp EXCEPT !.op = "frame"]
    /\ fired' = <<>>
    /\ UNCHANGED <<cfg, props, state, stored, animation, _previousLeft,
                   dragging>>

AnimationEnd ==
    /\ animation.active
    /\ value' = animation.toValue
    /\ currentValue' = animation.toValue
    /\ animation' = NoAnimation
    /\ last' = [NoOp EXCEPT !.op = "frameEnd"]
    /\ fired' = <<>>
    /\ UNCHANGED <<cfg, props, state, stored, _previousLeft, dragging>>

(***************************************************************************)
(* Geometry store                                                          *)
(***************************************************************************)
\* _handleMeasure without the early return on an unchanged size
_handleMeasure_AlwaysStores(storeName, layout) ==
    LET size == [width |-> layout.width, height |-> layout.height]
        newStored == [stored EXCEPT ![storeName] = size]
    IN  /\ stored' = newStored
        /\ IF /\ newStored["_containerSize"] # Undefined
              /\ newStored["_trackSize"] # Undefined
              /\ newStored["_thumbSize"] # Undefined
           THEN /\ state' = [containerSize |-> newStored["_containerSize"],
                             trackSize |-> newStored["_trackSize"],
                             thumbSize |-> newStored["_thumbSize"],
                             allMeasured |-> TRUE]
                /\ last' = [NoOp EXCEPT !.op = "measure",
                                          !.arg = <<storeName, layout>>,
                                          !.setState = TRUE]
           ELSE /\ last' = [NoOp EXCEPT !.op = "measure",
                                          !.arg = <<storeName, layout>>]
                /\ UNCHANGED state

_handleMeasure(storeName, layout) ==
    LET size == [width |-> layout.width, height |-> layout.height]
        currentSize == stored[storeName]
        newStored == [stored EXCEPT ![storeName] = size]
    IN  IF /\ currentSize # Undefined
           /\ layout.width = currentSize.width
           /\ layout.height = currentSize.height
        THEN /\ last' = [NoOp EXCEPT !.op = "measure", !.arg = <<storeName, layout>>]
             /\ UNCHANGED <<stored, state>>
        ELSE /\ stored' = newStored
             /\ IF /\ newStored["_containerSize"] # Undefined
                   /\ newStored["_trackSize"] # Undefined
                   /\ newStored["_thumbSize"] # Undefined
                THEN /\ state' = [containerSize |-> newStored["_containerSize"],
                                  trackSize |-> newStored["_trackSize"],
                                  thumbSize |-> newStored["_thumbSize"],
                                  allMeasured |-> TRUE]
                     /\ last' = [NoOp EXCEPT !.op = "measure",
                                               !.arg = <<storeName, layout>>,
                                               !.setState = TRUE]
                ELSE /\ last' = [NoOp EXCEPT !.op = "measure",
                                               !.arg = <<storeName, layout>>]
                     /\ UNCHANGED state

\* a measure that publishes the size of its region at once, the other
\* regions measured or not
Measure_PublishesAtOnce ==
    \E storeName \in SizeEnum : \E layout \in Sizes(storeName) :
        LET size == [width |-> layout.width, height |-> layout.height]
            newStored == [stored EXCEPT ![storeName] = size]
        IN  /\ stored' = newStored
            /\ state' = [containerSize |->
                             IF storeName = "_containerSize" THEN size
                             ELSE state.containerSize,
                         trackSize |->
                             IF storeName = "_trackSize" THEN size
                             ELSE state.trackSize,
                         thumbSize |->
                             IF storeName = "_thumbSize" THEN size
                             ELSE state.thumbSize,
                         allMeasured |->
                             \A n \in SizeEnum : newStored[n] # Undefined]
            /\ last' = [NoOp EXCEPT !.op = "measure",
                                    !.arg = <<storeName, layout>>,
                                    !.setState = TRUE]
            /\ fired' = <<>>
            /\ UNCHANGED <<cfg, props, value, animation, currentValue,
                           _previousLeft, dragging>>

Measure ==
    \E storeName \in SizeEnum : \E layout \in Sizes(storeName) :
        /\ _handleMeasure(storeName, layout)
        /\ fired' = <<>>
        /\ UNCHANGED <<cfg, props, value, animation, currentValue,
                       _previousLeft, dragging>>

(***************************************************************************)
(* Gesture controller: the handlers given to PanResponder.create           *)
(***************************************************************************)
_handleStartShouldSetPanResponder(e) == _thumbHitTest(e)

\* onMoveShouldSetPanResponder answering true
_handleMoveShouldSetPanResponder_True == TRUE

_handleMoveShouldSetPanResponder == FALSE

\* onPanResponderTerminationRequest answering true
_handlePanResponderRequestEnd_True == TRUE

_handlePanResponderRequestEnd == FALSE

_handlePanResponderGrant ==
    /\ _previousLeft' = _getThumbLeft(_getCurrentValue)
    /\ UNCHANGED <<value, animation, currentValue>>
    /\ _fireChangeEvent("onSlidingStart")

\* _handlePanResponderMove without the test of props.disabled
_handlePanResponderMove_IgnoresDisabled(gestureState) ==
    /\ _setCurrentValue(_getValue(gestureState))
    /\ _fireChangeEvent("onValueChange")

_handlePanResponderMove(gestureState) ==
    IF props.disabled
    THEN /\ fired' = <<>>
         /\ UNCHANGED <<value, animation, currentValue>>
    ELSE /\ _setCurrentValue(_getValue(gestureState))
         /\ _fireChangeEvent("onValueChange")

\* _handlePanResponderEnd reporting its value to onValueChange
_handlePanResponderEnd_FiresValueChange(gestureState) ==
    IF props.disabled
    THEN /\ fired' = <<>>
         /\ UNCHANGED <<value, animation, currentValue>>
    ELSE /\ _setCurrentValue(_getValue(gestureState))
         /\ _fireChangeEvent("onValueChange")

_handlePanResponderEnd(gestureState) ==
    IF props.disabled
    THEN /\ fired' = <<>>
         /\ UNCHANGED <<value, animation, currentValue>>
    ELSE /\ _setCurrentValue(_getValue(gestureState))
         /\ _fireChangeEvent("onSlidingComplete")

\* a touch starts while no view is the responder: the responder is granted
\* when onStartShouldSetPanResponder answers true
StartPress ==
    \E e \in TouchPoints :
        /\ ~dragging
        /\ last' = [NoOp EXCEPT !.op = "start", !.arg = <<e>>,
                                !.hit = _handleStartShouldSetPanResponder(e)]
        /\ IF _handleStartShouldSetPanResponder(e)
           THEN /\ dragging' = TRUE
                /\ _handlePanResponderGrant
           ELSE /\ fired' = <<>>
                /\ UNCHANGED <<value, animation, currentValue, _previousLeft,
                               dragging>>
        /\ UNCHANGED <<cfg, props, state, stored>>

\* a touch moves over the touch area while no view is the responder
MoveOver ==
    \E e \in TouchPoints :
        /\ ~dragging
        /\ last' = [NoOp EXCEPT !.op = "moveOver", !.arg = <<e>>,
                                !.hit = _thumbHitTest(e)]
        /\ IF _handleMoveShouldSetPanResponder
           THEN /\ dragging' = TRUE
                /\ _handlePanResponderGrant
           ELSE /\ fired' = <<>>
                /\ UNCHANGED <<value, animation, currentValue, _previousLeft,
                               dragging>>
        /\ UNCHANGED <<cfg, props, state, stored>>

Move ==
    \E dx \in DXs :
        /\ dragging
        /\ _handlePanResponderMove([dx |-> dx])
        /\ last' = [NoOp EXCEPT !.op = "move", !.arg = <<dx>>,
                                !.superseded = Superseded]
        /\ UNCHANGED <<cfg, props, state, stored, _previousLeft, dragging>>

\* a release that moves the anchor to the offset of the value it leaves
Release_MovesAnchor ==
    \E dx \in DXs :
        /\ dragging
        /\ _handlePanResponderEnd([dx |-> dx])
        /\ last' = [NoOp EXCEPT !.op = "release", !.arg = <<dx>>,
                                !.superseded = Superseded]
        /\ dragging' = FALSE
        /\ _previousLeft' = _getThumbLeft(currentValue')
        /\ UNCHANGED <<cfg, props, state, stored>>

Release ==
    \E dx \in DXs :
        /\ dragging
        /\ _handlePanResponderEnd([dx |-> dx])
        /\ last' = [NoOp EXCEPT !.op = "release", !.arg = <<dx>>,
                                !.superseded = Superseded]
        /\ dragging' = FALSE
        /\ UNCHANGED <<cfg, props, state, stored, _previousLeft>>

\* another view asks for the responder: it is handed over only when
\* onPanResponderTerminationRequest answers true
TerminationRequest ==
    /\ dragging
    /\ last' = [NoOp EXCEPT !.op = "terminationRequest"]
    /\ IF _handlePanResponderRequestEnd
       THEN /\ _handlePanResponderEnd([dx |-> 0])
            /\ dragging' = FALSE
       ELSE /\ fired' = <<>>
            /\ UNCHANGED <<value, animation, currentValue, dragging>>
    /\ UNCHANGED <<cfg, props, state, stored, _previousLeft>>

\* a terminate that no handler is registered for: the gesture just ends
Terminate_Unhandled ==
    \E dx \in DXs :
        /\ dragging
        /\ last' = [NoOp EXCEPT !.op = "terminate", !.arg = <<dx>>]
        /\ fired' = <<>>
        /\ dragging' = FALSE
        /\ UNCHANGED <<cfg, props, state, stored, value, animation,
                       currentValue, _previousLeft>>

\* the host takes the responder away without asking
Terminate ==
    \E dx \in DXs :
        /\ dragging
        /\ _handlePanResponderEnd([dx |-> dx])
        /\ last' = [NoOp EXCEPT !.op = "terminate", !.arg = <<dx>>,
                                !.superseded = Superseded]
        /\ dragging' = FALSE
        /\ UNCHANGED <<cfg, props, state, stored, _previousLeft>>

Next ==
    \/ ReceiveProps
    \/ AnimationFrame
    \/ AnimationEnd
    \/ Measure
    \/ StartPress
    \/ MoveOver
    \/ Move
    \/ Release
    \/ TerminationRequest
    \/ Terminate

Spec == Init /\ [][Next]_vars

(***************************************************************************)
(* The value mapper on its own: _getThumbLeft and _getValue applied to     *)
(* inputs drawn from the ranges, geometries, values and drag deltas below  *)
(***************************************************************************)
\* the largest drag delta given to the mapper, larger than every track length
MaxMapperDx == 300

MapperDXs == {-MaxMapperDx, -7, -2, 0, 2, 3, 4, 6, 133, 140, MaxMapperDx}

MapperRanges ==
    { [minimumValue |-> I(0), maximumValue |-> I(1), step |-> I(0)],
      [minimumValue |-> I(0), maximumValue |-> I(100), step |-> I(10)],
      [minimumValue |-> I(0), maximumValue |-> I(5), step |-> I(2)],
      [minimumValue |-> I(-2), maximumValue |-> I(2), step |-> I(1)],
      [minimumValue |-> I(2), maximumValue |-> I(2), step |-> I(0)] }

MapperConfigs ==
    { [minimumValue |-> r.minimumValue, maximumValue |-> r.maximumValue,
       step |-> r.step, isRTL |-> rtl,
       thumbTouchSize |-> [width |-> 4, height |-> 4]] :
      r \in MapperRanges, rtl \in BOOLEAN }

\* container and thumb widths: track lengths 280, 10, 8, 0 and -8
MapperWidths == {<<300, 20>>, <<12, 2>>, <<10, 2>>, <<2, 2>>, <<2, 10>>}

MapperGeometries ==
    { [containerSize |-> [width |-> w[1], height |-> 4],
       trackSize |-> [width |-> w[1], height |-> 4],
       thumbSize |-> [width |-> w[2], height |-> 4],
       allMeasured |-> TRUE] : w \in MapperWidths }
    \cup
    { [containerSize |-> [width |-> 0, height |-> 0],
       trackSize |-> [width |-> 0, height |-> 0],
       thumbSize |-> [width |-> 0, height |-> 0],
       allMeasured |-> FALSE] }

\* values of [minimumValue, maximumValue]: the ends, the middle, three tenths
MapperValues(c) ==
    LET range == NSub(c.maximumValue, c.minimumValue)
    IN  { c.minimumValue, c.maximumValue,
          NAdd(c.minimumValue, NDiv(range, I(2))),
          NAdd(c.minimumValue, NDiv(NMul(range, I(3)), I(10))) }

InitMapper ==
    /\ cfg \in MapperConfigs
    /\ state \in MapperGeometries
    /\ currentValue \in MapperValues(cfg)
    /\ value = currentValue
    /\ props = [value |-> currentValue, disabled |-> FALSE,
                animateTransitions |-> FALSE]
    /\ stored = IF state.allMeasured
                THEN [n \in SizeEnum |->
                        CASE n = "_containerSize" -> state.containerSize
                          [] n = "_trackSize" -> state.trackSize
                          [] n = "_thumbSize" -> state.thumbSize]
                ELSE [n \in SizeEnum |-> Undefined]
    /\ animation = NoAnimation
    /\ _previousLeft = I(0)
    /\ dragging = FALSE
    /\ fired = <<>>
    /\ last = NoOp

\* this._previousLeft = this._getThumbLeft(this._getCurrentValue())
ApplyGetThumbLeft ==
    /\ _previousLeft' = _getThumbLeft(_getCurrentValue)
    /\ last' = [NoOp EXCEPT !.op = "getThumbLeft"]
    /\ UNCHANGED <<cfg, props, state, stored, value, animation, currentValue,
                   dragging, fired>>

\* this.state.value.setValue(this._getValue(gestureState)), the listener left out
ApplyGetValue ==
    \E dx \in MapperDXs :
        /\ value' = _getValue([dx |-> dx])
        /\ last' = [NoOp EXCEPT !.op = "getValue", !.arg = <<dx>>]
        /\ UNCHANGED <<cfg, props, state, stored, animation, currentValue,
                       _previousLeft, dragging, fired>>

NextMapper == ApplyGetThumbLeft \/ ApplyGetValue

SpecMapper == InitMapper /\ [][NextMapper]_vars

(***************************************************************************)
(* Vocabulary of the properties                                            *)
(***************************************************************************)
\* container.width - thumb.width of the published geometry
TrackLength == state.containerSize.width - state.thumbSize.width

InRange(v) == NLe(cfg.minimumValue, v) /\ NLe(v, cfg.maximumValue)

\* v = minimumValue + k * step for an integer k
OnGrid(v) ==
    /\ IsFinite(v)
    /\ NDiv(NSub(v, cfg.minimumValue), cfg.step).d = 1

NAbs(a) == IF NLt(a, I(0)) THEN NNeg(a) ELSE a

StepIsPositive ==
    /\ NLt(I(0), cfg.step)
    /\ NLe(cfg.step, NSub(cfg.maximumValue, cfg.minimumValue))

\* the operations that hand a gesture's dx to _getValue
GestureOps == {"move", "release", "terminate"}

\* the last operation was a move or end event that wrote its value
WroteGestureValue == last.op \in GestureOps /\ fired # <<>>

\* the press e lies in the thumb touch rect, its four edges included
InsideTouchRect(e) ==
    LET r == _getThumbTouchRect
    IN  /\ NLe(r.x, I(e.locationX)) /\ NLe(I(e.locationX), NAdd(r.x, r.width))
        /\ NLe(r.y, I(e.locationY)) /\ NLe(I(e.locationY), NAdd(r.y, r.height))

FiredNames == {fired[i].name : i \in DOMAIN fired}

\* round half away from zero; an infinity or a non-number is left as it is
RoundHalfAwayFromZero(a) ==
    IF a.t # "fin" THEN a
    ELSE LET m == (2 * Abs(a.n) + a.d) \div (2 * a.d)
         IN  I(IF a.n < 0 THEN -m ELSE m)

Clamp(a, lo, hi) == IF NLt(a, lo) THEN lo ELSE IF NLt(hi, a) THEN hi ELSE a

\* the value of a ratio as section 4.2 of the specification gives it
ValueOfRatio(ratio) ==
    LET range == NSub(cfg.maximumValue, cfg.minimumValue)
    IN  IF NLt(I(0), cfg.step)
        THEN Clamp(NAdd(cfg.minimumValue,
                        NMul(RoundHalfAwayFromZero(NDiv(NMul(ratio, range), cfg.step)),
                             cfg.step)),
                   cfg.minimumValue, cfg.maximumValue)
        ELSE Clamp(NAdd(NMul(ratio, range), cfg.minimumValue),
                   cfg.minimumValue, cfg.maximumValue)

\* valueFromOffset as section 4.2 of the specification gives it
ValueFromOffset(offset) ==
    LET rawRatio == NDiv(offset, I(TrackLength))
    IN  ValueOfRatio(IF cfg.isRTL THEN NSub(I(1), rawRatio) ELSE rawRatio)

(***************************************************************************)
(* C1: for every dx, every anchor and every geometry, the value computed   *)
(* by a move or end event lies in [minimumValue, maximumValue].            *)
(***************************************************************************)
C1_ComputedValueInRange == WroteGestureValue => InRange(value)

(***************************************************************************)
(* C2: with step s > 0 and s <= maximum - minimum, every value returned by *)
(* _getValue satisfies (value - minimum) mod s = 0, values clamped to      *)
(* maximum included.  Stated for the tracks of a length other than 0,      *)
(* where offset / trackLength is a number: the statement fails there.      *)
(***************************************************************************)
C2_EveryValueOnGrid ==
    (last.op = "getValue" /\ StepIsPositive /\ TrackLength # 0) => OnGrid(value)

\* C2 as amended: the value is on the grid, or is maximumValue itself, or is
\* the NaN of the division 0/0 of the offset 0 by a track of length 0
C2_OnGridOrMaximum ==
    (last.op = "getValue" /\ StepIsPositive) =>
        \/ OnGrid(value)
        \/ value = cfg.maximumValue
        \/ /\ value = NaN
           /\ TrackLength = 0
           /\ NAdd(_previousLeft, I(last.arg[1])) = I(0)

\* a value clamped to a maximum that is off the grid
C2_Witness ==
    /\ last.op = "getValue"
    /\ StepIsPositive
    /\ value = cfg.maximumValue
    /\ ~OnGrid(value)
    /\ TrackLength > 0

(***************************************************************************)
(* C3: in every reachable state the value held by the value holder lies in *)
(* [minimumValue, maximumValue].                                           *)
(***************************************************************************)
C3_HeldValueInRange == InRange(value)

(***************************************************************************)
(* C4: for v in [minimum, maximum] and measured geometry, _getValue with   *)
(* the anchor _getThumbLeft(v) and dx = 0 differs from v by at most step   *)
(* when step > 0 and equals v when step = 0.                               *)
(***************************************************************************)
C4_RoundTrip ==
    ( /\ last.op = "getValue"
      /\ last.arg = <<0>>
      /\ state.allMeasured
      /\ InRange(currentValue)
      /\ _previousLeft = _getThumbLeft(currentValue) ) =>
        IF NLt(I(0), cfg.step)
        THEN NLe(NAbs(NSub(value, currentValue)), cfg.step)
        ELSE NEq(value, currentValue)

(***************************************************************************)
(* C5: offset(minimum) = 0 and offset(maximum) = trackLength when not RTL, *)
(* offset(minimum) = trackLength and offset(maximum) = 0 when RTL.         *)
(***************************************************************************)
C5_EndpointOffsets ==
    IF cfg.isRTL
    THEN /\ NEq(_getThumbLeft(cfg.minimumValue), I(TrackLength))
         /\ NEq(_getThumbLeft(cfg.maximumValue), I(0))
    ELSE /\ NEq(_getThumbLeft(cfg.minimumValue), I(0))
         /\ NEq(_getThumbLeft(cfg.maximumValue), I(TrackLength))

(***************************************************************************)
(* C6: the controller enters Dragging and fires onSlidingStart only by a   *)
(* start press whose point lies in the thumb touch rect, edges included: a *)
(* start press outside never grants, a move over the thumb never grants.   *)
(***************************************************************************)
C6_GrantOnlyByStartOnThumb ==
    [][ ((~dragging /\ dragging') \/ "onSlidingStart" \in FiredNames')
            => /\ last'.op = "start"
               /\ InsideTouchRect(last'.arg[1])
               /\ ~dragging /\ dragging'
               /\ FiredNames' = {"onSlidingStart"} ]_vars

\* a grant by a press on the right bottom corner of the touch rect
C6_Witness ==
    /\ last.op = "start"
    /\ last.arg = <<[locationX |-> 4, locationY |-> 4]>>
    /\ state.allMeasured
    /\ _getThumbTouchRect = Rect(I(0), I(0), I(4), I(4))
    /\ dragging
    /\ FiredNames = {"onSlidingStart"}

(***************************************************************************)
(* C7: a move, release or terminate event that arrives while disabled is   *)
(* true leaves the value and previousThumbOffset unchanged and fires no    *)
(* callback; a disabled move leaves the gesture in progress, and the       *)
(* anchor captured at grant stays in place for the moves that follow.      *)
(***************************************************************************)
C7_DisabledEventsChangeNothing ==
    [][ /\ (props.disabled /\ last'.op \in GestureOps)
            => /\ value' = value
               /\ currentValue' = currentValue
               /\ animation' = animation
               /\ _previousLeft' = _previousLeft
               /\ fired' = <<>>
               /\ (last'.op = "move" => dragging' = dragging)
        /\ (dragging /\ dragging') => _previousLeft' = _previousLeft ]_vars

\* a move that arrived while disabled, the thumb held off its anchor value
C7_Witness ==
    /\ last.op = "move"
    /\ props.disabled
    /\ dragging
    /\ fired = <<>>
    /\ IsFinite(_previousLeft)
    /\ _previousLeft # _getThumbLeft(value)

(***************************************************************************)
(* C8: a measure event whose width and height equal the size stored for    *)
(* its region changes nothing: stored sizes, published sizes and           *)
(* allMeasured stay, and no state update is issued.                        *)
(***************************************************************************)
C8_SameMeasureIsNoOp ==
    [][ (last'.op = "measure" /\ stored[last'.arg[1]] = last'.arg[2])
            => /\ stored' = stored
               /\ state' = state
               /\ ~last'.setState ]_vars

\* a repeated measure once all three regions are measured
C8_Witness ==
    /\ last.op = "measure"
    /\ state.allMeasured
    /\ stored[last.arg[1]] = last.arg[2]
    /\ ~last.setState

(***************************************************************************)
(* C9: with trackLength > 0, _getValue returns the value of section 4.2:   *)
(* the ratio offset/trackLength (mirrored when RTL) scaled to the range,   *)
(* rounded half away from zero to the step and then clamped; [0,100] step  *)
(* 10, trackLength 280, dx 133 from value 0 gives 50; RTL with raw ratio   *)
(* 0.3 on [0,1] gives 0.7.                                                 *)
(***************************************************************************)
C9_GetValueIsValueFromOffset ==
    /\ (last.op = "getValue" /\ TrackLength > 0 /\ IsFinite(_previousLeft))
           => value = ValueFromOffset(NAdd(_previousLeft, I(last.arg[1])))
    /\ ( /\ last.op = "getValue" /\ last.arg = <<133>>
         /\ ~cfg.isRTL
         /\ cfg.minimumValue = I(0) /\ cfg.maximumValue = I(100) /\ cfg.step = I(10)
         /\ TrackLength = 280
         /\ _previousLeft = _getThumbLeft(I(0)) )
           => value = I(50)
    /\ ( /\ last.op = "getValue"
         /\ cfg.isRTL
         /\ cfg.minimumValue = I(0) /\ cfg.maximumValue = I(1) /\ cfg.step = I(0)
         /\ TrackLength > 0
         /\ NDiv(NAdd(_previousLeft, I(last.arg[1])), I(TrackLength)) = Fin(3, 10) )
           => value = Fin(7, 10)

\* the scenario of the step 10 on [0,100]
C9_Witness ==
    /\ last.op = "getValue" /\ last.arg = <<133>>
    /\ ~cfg.isRTL
    /\ cfg.minimumValue = I(0) /\ cfg.maximumValue = I(100) /\ cfg.step = I(10)
    /\ TrackLength = 280
    /\ _previousLeft = I(0)
    /\ value = I(50)

(***************************************************************************)
(* C10: when trackLength <= 0 a move or end event does not divide by it:   *)
(* the value is computed as if the ratio were 0 and is a well-defined      *)
(* number, as is the thumb offset (the ratio 0 being the raw or the        *)
(* mirrored one when RTL).                                                 *)
(***************************************************************************)
C10_NoDivisionByTrackLength ==
    (WroteGestureValue /\ TrackLength <= 0) =>
        /\ IsFinite(value)
        /\ IsFinite(_getThumbLeft(value))
        /\ value \in {ValueOfRatio(I(0))}
                       \cup (IF cfg.isRTL THEN {ValueOfRatio(I(1))} ELSE {})

(***************************************************************************)
(* C11: with minimumValue = maximumValue the slider is fixed at minimum:   *)
(* the ratio and the thumb offset of the value read at grant and in the    *)
(* hit test are the number 0, not the result of a division by zero, and    *)
(* every value computed for a gesture is minimumValue.                     *)
(***************************************************************************)
C11_DegenerateRangeIsFixed ==
    (cfg.minimumValue = cfg.maximumValue) =>
        /\ _getRatio(_getCurrentValue) = I(0)
        /\ _getThumbLeft(_getCurrentValue) = I(0)
        /\ (last.op = "getThumbLeft" => _previousLeft = I(0))
        /\ (last.op = "getValue" => value = cfg.minimumValue)

(***************************************************************************)
(* C12: when the value prop changes, the value holder is updated to the    *)
(* new value, by an animated transition if animateTransitions is set in    *)
(* the props that bring the new value, by an immediate write otherwise.    *)
(***************************************************************************)
C12_UpdateFollowsNewFlag ==
    [][ (last'.op = "receiveProps" /\ ~NEq(props.value, props'.value))
            => IF props'.animateTransitions
               THEN /\ animation' = [active |-> TRUE, toValue |-> props'.value]
                    /\ value' = value
               ELSE /\ value' = props'.value
                    /\ ~animation'.active ]_vars

(***************************************************************************)
(* C13: the slider is not a controlled component: a props update whose     *)
(* value prop equals the previous value prop never writes to the value     *)
(* holder, so a value a drag has moved away from the prop stays in place   *)
(* however often the same prop is supplied again.                          *)
(***************************************************************************)
C13_SameValuePropWritesNothing ==
    [][ (last'.op = "receiveProps" /\ props'.value = props.value)
            => /\ value' = value
               /\ currentValue' = currentValue
               /\ animation' = animation ]_vars

\* the props supplied again during a drag that has moved the value away from
\* the value prop: no write and no transition has brought it back
C13_Witness ==
    /\ last.op = "receiveProps"
    /\ dragging
    /\ ~animation.active
    /\ IsFinite(value)
    /\ value # props.value
    /\ _previousLeft # _getThumbLeft(value)

C15_GrantReadsHeldValue ==
    [][ (last'.op = "start" /\ last'.hit)
            => /\ _previousLeft' = _getThumbLeft(value)
               /\ fired' = <<[name |-> "onSlidingStart", value |-> value]>> ]_vars

(***************************************************************************)
(* C16: on every move while Dragging and not disabled, the new value       *)
(* valueFromOffset(previousThumbOffset + dx) is written to the value       *)
(* holder before the callback runs, and onValueChange is called with       *)
(* exactly the newly written value, never the value from before the move.  *)
(***************************************************************************)
C16_MoveWritesThenNotifies ==
    [][ (last'.op = "move" /\ ~props.disabled)
            => /\ dragging
               /\ value' = ValueFromOffset(NAdd(_previousLeft, I(last'.arg[1])))
               /\ currentValue' = value'
               /\ fired' = <<[name |-> "onValueChange", value |-> value']>> ]_vars

\* a move that has taken the value away from the anchor of the grant and from
\* the value prop, reported to onValueChange
C16_Witness ==
    /\ last.op = "move"
    /\ dragging
    /\ TrackLength > 0
    /\ IsFinite(value)
    /\ value # props.value
    /\ _previousLeft # _getThumbLeft(value)
    /\ fired = <<[name |-> "onValueChange", value |-> value]>>

\* the operations that end a gesture
EndOps == {"release", "terminate"}

(***************************************************************************)
(* C17: a forced terminate behaves identically to a release: from the same *)
(* state and with the same dx both write valueFromOffset(previousThumb-    *)
(* Offset + dx) to the value holder, call onSlidingComplete with that      *)
(* value and return the controller to Idle (and both do nothing but        *)
(* return to Idle when disabled): the state after the event is one         *)
(* function of the state before and of dx, whichever of the two it is.     *)
(***************************************************************************)
C17_TerminateIsRelease ==
    [][ (last'.op \in EndOps)
            => /\ dragging /\ ~dragging'
               /\ _previousLeft' = _previousLeft
               /\ state' = state /\ stored' = stored /\ props' = props
               /\ IF props.disabled
                  THEN /\ value' = value
                       /\ currentValue' = currentValue
                       /\ animation' = animation
                       /\ fired' = <<>>
                  ELSE /\ value' = ValueFromOffset(NAdd(_previousLeft,
                                                        I(last'.arg[1])))
                       /\ currentValue' = value'
                       /\ ~animation'.active
                       /\ fired' = <<[name |-> "onSlidingComplete",
                                      value |-> value']>> ]_vars

\* a terminate that has written a value of its own and reported it
C17_Witness ==
    /\ last.op = "terminate"
    /\ ~dragging
    /\ TrackLength > 0
    /\ IsFinite(value)
    /\ value # props.value
    /\ _previousLeft # _getThumbLeft(value)
    /\ fired = <<[name |-> "onSlidingComplete", value |-> value]>>

(***************************************************************************)
(* C18: while Dragging, a termination request of a competing gesture owner *)
(* is always refused, whatever the value, the geometry or the disabled     *)
(* flag: the gesture stays in progress, no state changes and no callback   *)
(* is fired.                                                               *)
(***************************************************************************)
C18_TerminationRequestRefused ==
    [][ (last'.op = "terminationRequest")
            => /\ dragging /\ dragging'
               /\ fired' = <<>>
               /\ UNCHANGED <<cfg, props, state, stored, value, animation,
                              currentValue, _previousLeft>> ]_vars

\* a request refused in the middle of a drag of an enabled slider on a
\* measured track, the value dragged away from the value prop
C18_Witness ==
    /\ last.op = "terminationRequest"
    /\ dragging
    /\ ~props.disabled
    /\ state.allMeasured
    /\ TrackLength > 0
    /\ IsFinite(value)
    /\ value # props.value

\* the regions that have been measured at least once
Measured == {n \in SizeEnum : stored[n] # Undefined}

(***************************************************************************)
(* C19: allMeasured is false initially, becomes true at exactly the        *)
(* measure event after which container, track and thumb have all been      *)
(* measured at least once, in any order of arrival, and once true is never *)
(* set back to false by a later measure, gesture or value event.           *)
(***************************************************************************)
C19_AllMeasuredOnceAllThree ==
    /\ [](last.op = "constructor" => (~state.allMeasured /\ Measured = {}))
    /\ [](state.allMeasured <=> Measured = SizeEnum)
    /\ [][ /\ state.allMeasured => state'.allMeasured
           /\ (~state.allMeasured /\ state'.allMeasured)
                  => /\ last'.op = "measure"
                     /\ last'.setState
                     /\ Measured = SizeEnum \ {last'.arg[1]}
           /\ Measured \subseteq Measured'
           /\ Measured' # Measured
                  => /\ last'.op = "measure"
                     /\ Measured' = Measured \cup {last'.arg[1]} ]_vars

\* allMeasured set by a measure of the track that came last, after the thumb
\* and the container
C19_Witness ==
    /\ last.op = "measure"
    /\ last.arg[1] = "_trackSize"
    /\ last.setState
    /\ state.allMeasured
    /\ ~dragging

\* the operations that deliver a frame of the animation in flight
FrameOps == {"frame", "frameEnd"}

(***************************************************************************)
(* C20: an immediate write made while an animated transition is in flight  *)
(* (a gesture move or end, or an external value change that is not         *)
(* animated), or the start of a new transition, supersedes the earlier     *)
(* animation: no frame of the earlier animation changes the value          *)
(* afterwards, so after a gesture write the holder keeps the written value *)
(* until the next write.                                                   *)
(***************************************************************************)
C20_WriteSupersedesAnimation ==
    \* the animation in flight is the one towards the latest value prop
    /\ [](animation.active => animation.toValue = OrZero(props.value))
    /\ [][ \* an immediate write leaves no animation in flight
           /\ (last'.op \in GestureOps /\ fired' # <<>>) => ~animation'.active
           /\ (last'.op = "receiveProps" /\ value' # value) => ~animation'.active
           \* a new transition replaces the one in flight
           /\ (last'.op = "receiveProps" /\ animation'.active /\ animation' # animation)
                  => animation'.toValue = OrZero(props'.value)
           \* a frame belongs to the animation in flight and leads to its target
           /\ (last'.op \in FrameOps)
                  => /\ animation.active
                     /\ IF last'.op = "frameEnd"
                        THEN value' = animation.toValue /\ ~animation'.active
                        ELSE /\ value' \in FrameValues(value, animation.toValue)
                             /\ animation' = animation
           \* without an animation in flight only a write changes the value
           /\ (~animation.active /\ value' # value)
                  => \/ last'.op \in GestureOps /\ fired' # <<>>
                     \/ last'.op = "receiveProps" ]_vars

\* a move that wrote its value while a transition was in flight: the
\* transition is gone and the value is neither its start nor its target
C20_Witness ==
    /\ last.op = "move"
    /\ last.superseded
    /\ ~animation.active
    /\ TrackLength > 0
    /\ IsFinite(value)
    /\ value # props.value
    /\ fired = <<[name |-> "onValueChange", value |-> value]>>

ZeroSize == [width |-> 0, height |-> 0]

(***************************************************************************)
(* C21: the published geometry (state.containerSize, state.trackSize,      *)
(* state.thumbSize) that the value mapper and the hit test read is all     *)
(* zero in every state where allMeasured is false and is the most recently *)
(* measured size of each region in every state where allMeasured is true:  *)
(* a partial set of measurements is never published.                       *)
(***************************************************************************)
C21_PublishedGeometryAllOrNothing ==
    IF state.allMeasured
    THEN /\ state.containerSize = stored["_containerSize"]
         /\ state.trackSize = stored["_trackSize"]
         /\ state.thumbSize = stored["_thumbSize"]
         /\ Measured = SizeEnum
         /\ (last.op = "measure" => stored[last.arg[1]] = last.arg[2])
    ELSE /\ state.containerSize = ZeroSize
         /\ state.trackSize = ZeroSize
         /\ state.thumbSize = ZeroSize
         /\ (last.op = "measure" => stored[last.arg[1]] = last.arg[2])

\* the container measured again with another width after a grant on a track
\* of length 8: the new size is the published one
C21_Witness ==
    /\ last.op = "measure"
    /\ last.arg[1] = "_containerSize"
    /\ last.setState
    /\ state.allMeasured
    /\ state.containerSize = [width |-> 2, height |-> 4]
    /\ IsFinite(_previousLeft)
    /\ _previousLeft # I(0)

(***************************************************************************)
(* C22: within each gesture the callbacks are ordered onSlidingStart,      *)
(* exactly once and at the grant, then any number of onValueChange, then   *)
(* at most one onSlidingComplete as the last one; no onValueChange and no  *)
(* onSlidingComplete is fired while Idle, and exactly one                  *)
(* onSlidingComplete is fired when the gesture ends by a release or a      *)
(* terminate with disabled false.  Stated step by step: which callback a   *)
(* step fires decides, and is decided by, where the step stands in the     *)
(* gesture.                                                                *)
(***************************************************************************)
C22_CallbacksInGestureOrder ==
    [][ /\ Len(fired') <= 1
        /\ FiredNames' \subseteq EventEnum
        \* onSlidingStart: at every grant and only there
        /\ ("onSlidingStart" \in FiredNames') <=> (~dragging /\ dragging')
        \* onValueChange: only inside a gesture that goes on
        /\ ("onValueChange" \in FiredNames')
               => (dragging /\ dragging' /\ last'.op = "move")
        \* onSlidingComplete: only by the step that ends the gesture
        /\ ("onSlidingComplete" \in FiredNames')
               => (dragging /\ ~dragging' /\ last'.op \in EndOps)
        \* Idle fires nothing but the onSlidingStart of a grant
        /\ ~dragging => FiredNames' \subseteq {"onSlidingStart"}
        \* the end of a gesture of an enabled slider fires onSlidingComplete
        /\ (dragging /\ ~dragging')
               => /\ last'.op \in EndOps
                  /\ IF props.disabled
                     THEN fired' = <<>>
                     ELSE FiredNames' = {"onSlidingComplete"} ]_vars

\* a release that ended a gesture which had moved the thumb off its anchor
C22_Witness ==
    /\ last.op = "release"
    /\ ~dragging
    /\ ~props.disabled
    /\ TrackLength > 0
    /\ IsFinite(_previousLeft)
    /\ _previousLeft # _getThumbLeft(value)
    /\ FiredNames = {"onSlidingComplete"}

(***************************************************************************)
(* C23: previousThumbOffset is written only by a grant: move, release,     *)
(* terminate, measure and external value changes leave it unchanged, so    *)
(* the value of a move depends only on the anchor captured at the grant,   *)
(* the cumulative dx and the geometry, and a move with the same dx as the  *)
(* move before it produces the same value.                                 *)
(***************************************************************************)
C23_AnchorWrittenOnlyByGrant ==
    [][ /\ (_previousLeft' # _previousLeft)
               => /\ last'.op = "start" /\ last'.hit
                  /\ ~dragging /\ dragging'
                  /\ _previousLeft' = _getThumbLeft(currentValue)
        /\ (last'.op \in {"move", "release", "terminate", "measure",
                          "receiveProps", "frame", "frameEnd",
                          "terminationRequest", "moveOver"})
               => _previousLeft' = _previousLeft
        /\ (last'.op = "move" /\ fired' # <<>>)
               => value' = ValueFromOffset(NAdd(_previousLeft', I(last'.arg[1])))
        /\ ( /\ last.op = "move" /\ last'.op = "move"
             /\ last'.arg = last.arg
             /\ fired # <<>> /\ fired' # <<>> )
               => value' = value ]_vars

\* a move by 4 that has taken the thumb off the anchor of the grant, the
\* anchor still where the grant put it
C23_Witness ==
    /\ last.op = "move"
    /\ last.arg = <<4>>
    /\ dragging
    /\ ~props.disabled
    /\ TrackLength > 0
    /\ IsFinite(_previousLeft)
    /\ IsFinite(value)
    /\ _previousLeft # _getThumbLeft(value)
    /\ value = ValueFromOffset(NAdd(_previousLeft, I(4)))

====
